---- MODULE Spec2Model ----
(***************************************************************************)
(* Model of usage_checker.py (CodexUsageChecker): the session-log scanner, *)
(* the token_count extractor, the 24-hour usage cache and the summary      *)
(* assembler.                                                              *)
(*                                                                         *)
(* Strings are sequences of characters.  JSON values are tagged records.   *)
(* A cache file is the sequence of JSON tokens json.dump wrote into it, so *)
(* that a truncated or overlaid file is a token sequence json.load rejects.*)
(* A log line is a text identified by what json.loads makes of it.         *)
(* Time is counted in hours.                                               *)
(***************************************************************************)
EXTENDS Integers, Sequences, FiniteSets, TLC

VARIABLES
    dirExists,  \* ~/.codex/sessions exists
    files,      \* the rollout-*.jsonl files under it, in glob order
    clock,      \* datetime.now(), in hours
    cache,      \* usage_cache_dir: file name -> content (JSON tokens)
    lastPut,    \* history: file name -> the last save_usage_data call that wrote it
    ret,        \* the call that has just returned (op = "idle": none)
    wr,         \* concurrent save_usage_data processes
    rd          \* a concurrent load_usage_data process

vars == <<dirExists, files, clock, cache, lastPut, ret, wr, rd>>

----------------------------------------------------------------------------
(* Bounds of the model *)

MaxClock == 48
MaxFiles == 2
MaxLines == 3
MaxScanLines == 1
MaxMtime == 2
Writers == 2
FlushLen == 8

TickSteps == {24, 25}

----------------------------------------------------------------------------
(* JSON values *)

EmptyMap == [key \in {} |-> 0]

JNull == [k |-> "null", s |-> <<>>, n |-> 0, m |-> EmptyMap]
JStr(str) == [k |-> "str", s |-> str, n |-> 0, m |-> EmptyMap]
JNum(i) == [k |-> "num", s |-> <<>>, n |-> i, m |-> EmptyMap]
JArr == [k |-> "arr", s |-> <<>>, n |-> 0, m |-> EmptyMap]
JObj(map) == [k |-> "obj", s |-> <<>>, n |-> 0, m |-> map]

\* dict.get(key, default); the caller has checked that d is a dict
DictGet(d, key, default) == IF key \in DOMAIN d.m THEN d.m[key] ELSE default

\* only a dict has .get: on any other value the call raises AttributeError
HasGet(v) == v.k = "obj"

\* Python truthiness of a JSON value
Truthy(v) ==
    CASE v.k = "null" -> FALSE
      [] v.k = "str" -> v.s # <<>>
      [] v.k = "num" -> v.n # 0
      [] v.k = "arr" -> v.n # 0
      [] OTHER -> DOMAIN v.m # {}

----------------------------------------------------------------------------
(* json.dump and json.load on a cache file *)

Tok(t, s, n) == [t |-> t, s |-> s, n |-> n]

\* the order in which the keys are written
KeyOrder ==
    <<"email", "last_updated", "usage_data", "check_time", "token_usage",
      "rate_limits", "total_tokens", "primary", "used_percent">>

RECURSIVE Dump(_), DumpMembers(_, _)
Dump(v) ==
    CASE v.k = "null" -> <<Tok("null", <<>>, 0)>>
      [] v.k = "str" -> <<Tok("str", v.s, 0)>>
      [] v.k = "num" -> <<Tok("num", <<>>, v.n)>>
      [] v.k = "arr" -> <<Tok("[", <<>>, 0), Tok("]", <<>>, 0)>>
      [] OTHER -> <<Tok("{", <<>>, 0)>> \o DumpMembers(v.m, 1) \o <<Tok("}", <<>>, 0)>>
DumpMembers(map, i) ==
    IF i > Len(KeyOrder) THEN <<>>
    ELSE (IF KeyOrder[i] \in DOMAIN map
          THEN <<Tok("key", <<KeyOrder[i]>>, 0)>> \o Dump(map[KeyOrder[i]])
          ELSE <<>>) \o DumpMembers(map, i + 1)

PFail == [ok |-> FALSE, v |-> JNull, nx |-> 0]

RECURSIVE ParseValue(_, _), ParseMembers(_, _, _)
ParseValue(toks, i) ==
    IF i > Len(toks) THEN PFail
    ELSE CASE toks[i].t = "null" -> [ok |-> TRUE, v |-> JNull, nx |-> i + 1]
           [] toks[i].t = "str" -> [ok |-> TRUE, v |-> JStr(toks[i].s), nx |-> i + 1]
           [] toks[i].t = "num" -> [ok |-> TRUE, v |-> JNum(toks[i].n), nx |-> i + 1]
           [] toks[i].t = "[" ->
                IF i + 1 <= Len(toks) /\ toks[i + 1].t = "]"
                THEN [ok |-> TRUE, v |-> JArr, nx |-> i + 2]
                ELSE PFail
           [] toks[i].t = "{" -> ParseMembers(toks, i + 1, EmptyMap)
           [] OTHER -> PFail
ParseMembers(toks, i, acc) ==
    IF i > Len(toks) THEN PFail
    ELSE IF toks[i].t = "}" THEN [ok |-> TRUE, v |-> JObj(acc), nx |-> i + 1]
    ELSE IF toks[i].t # "key" THEN PFail
    ELSE LET r == ParseValue(toks, i + 1)
         IN  IF r.ok
             THEN ParseMembers(toks, r.nx, (toks[i].s[1] :> r.v) @@ acc)
             ELSE PFail

\* json.load: the whole content must be one document, else JSONDecodeError
JsonLoad(content) ==
    LET r == ParseValue(content, 1)
    IN  IF r.ok /\ r.nx = Len(content) + 1 THEN r ELSE PFail

----------------------------------------------------------------------------
(* datetime.isoformat / datetime.fromisoformat, hours since day 0 *)

Digit == <<"0", "1", "2", "3", "4", "5", "6", "7", "8", "9">>
IsDigit(c) == \E d \in 1..10 : Digit[d] = c
DigitVal(c) == (CHOOSE d \in 1..10 : Digit[d] = c) - 1

IsoFormat(t) ==
    <<Digit[(t \div 24) + 1], "T", Digit[((t % 24) \div 10) + 1],
      Digit[((t % 24) % 10) + 1]>>

\* ok = FALSE: ValueError
FromIsoFormat(str) ==
    IF /\ Len(str) = 4
       /\ str[2] = "T"
       /\ IsDigit(str[1]) /\ IsDigit(str[3]) /\ IsDigit(str[4])
    THEN [ok |-> TRUE,
          t |-> DigitVal(str[1]) * 24 + DigitVal(str[3]) * 10 + DigitVal(str[4])]
    ELSE [ok |-> FALSE, t |-> 0]

\* timedelta(hours=24)
TTL == 24

----------------------------------------------------------------------------
(* The cache file of an identity *)

RECURSIVE Replace(_, _, _)
\* str.replace(old, new) for a one-character old
Replace(str, old, new) ==
    IF str = <<>> THEN <<>>
    ELSE (IF Head(str) = old THEN new ELSE <<Head(str)>>) \o Replace(Tail(str), old, new)

SafeEmail(email) ==
    Replace(Replace(Replace(email, "@", <<"_", "a", "t", "_">>), ".", <<"_">>),
            "+", <<"_", "p", "l", "u", "s", "_">>)

CacheFile(email) == SafeEmail(email) \o <<"_", "u", "s", "a", "g", "e", ".", "j", "s", "o", "n">>

----------------------------------------------------------------------------
(* Results of a call *)

NoSummary ==
    [status |-> "none", token_usage |-> JNull, rate_limits |-> JNull,
     errors |-> <<>>, check_time |-> <<>>]

\* op: the call; arg: its email; f: its file (find: the file returned);
\* fault, ff: the I/O fault it met and on which file; out, val, sum: its result
Idle ==
    [op |-> "idle", arg |-> <<>>, f |-> 0, fault |-> "none", ff |-> 0,
     out |-> "none", val |-> JNull, sum |-> NoSummary]

Returned(op, arg, f, fault, ff, out, val, sum) ==
    [op |-> op, arg |-> arg, f |-> f, fault |-> fault, ff |-> ff, out |-> out,
     val |-> val, sum |-> sum]

\* a Python return value: None, or the value
PyValue(v) == IF v.k = "null" THEN [out |-> "none", val |-> JNull]
              ELSE [out |-> "value", val |-> v]
PyNone == [out |-> "none", val |-> JNull]

\* the concurrent reader has not read; else what it saw and what it returned
NotRead ==
    [op |-> "idle", existed |-> FALSE, seen |-> <<>>, crashed |-> FALSE,
     out |-> "none", val |-> JNull]
PyRaise == [out |-> "raise", val |-> JNull]

----------------------------------------------------------------------------
(* save_usage_data and load_usage_data *)

CacheData(email, usage_data, now) ==
    JObj(("email" :> JStr(email)) @@ ("last_updated" :> JStr(IsoFormat(now)))
         @@ ("usage_data" :> usage_data))

\* "open": open() raises OSError; "truncate", "partial": the write raises
\* OSError after open() has truncated the file
SaveFaults == {"none", "open", "truncate", "partial"}

WriteFile(dir, file, content) == (file :> content) @@ dir

\* the result and the cache directory after the call
SaveUsageData(email, usage_data, fault) ==
    IF email = <<>> THEN [out |-> "false", cache |-> cache]
    ELSE IF fault = "open" THEN [out |-> "false", cache |-> cache]
    ELSE LET cache_file == CacheFile(email)
             content == Dump(CacheData(email, usage_data, clock))
         IN  CASE fault = "truncate" ->
                    [out |-> "false", cache |-> WriteFile(cache, cache_file, <<>>)]
               [] fault = "partial" ->
                    [out |-> "false",
                     cache |-> WriteFile(cache, cache_file,
                                         SubSeq(content, 1, Len(content) \div 2))]
               [] OTHER ->
                    [out |-> "true", cache |-> WriteFile(cache, cache_file, content)]

\* the comparison of line 130 with >= for >
StaleAtTTL(now, last_updated) == now - last_updated >= TTL

Stale(now, last_updated) == now - last_updated > TTL

\* line 133 returning the whole entry for its usage_data
DecodeEntryWhole(content, now) ==
    LET cache_data == JsonLoad(content)
    IN  IF ~cache_data.ok THEN PyNone
        ELSE IF ~HasGet(cache_data.v) THEN PyRaise
        ELSE LET lu == DictGet(cache_data.v, "last_updated", JStr(<<>>))
             IN  IF lu.k # "str" THEN PyRaise
                 ELSE LET last_updated == FromIsoFormat(lu.s)
                      IN  IF ~last_updated.ok THEN PyNone
                          ELSE IF Stale(now, last_updated.t) THEN PyNone
                          ELSE PyValue(cache_data.v)

\* lines 125-133 on the content read from the cache file
DecodeEntry(content, now) ==
    LET cache_data == JsonLoad(content)
    IN  IF ~cache_data.ok THEN PyNone                  \* JSONDecodeError
        ELSE IF ~HasGet(cache_data.v) THEN PyRaise     \* AttributeError
        ELSE LET lu == DictGet(cache_data.v, "last_updated", JStr(<<>>))
             IN  IF lu.k # "str" THEN PyRaise          \* TypeError
                 ELSE LET last_updated == FromIsoFormat(lu.s)
                      IN  IF ~last_updated.ok THEN PyNone      \* ValueError
                          ELSE IF Stale(now, last_updated.t) THEN PyNone
                          ELSE PyValue(DictGet(cache_data.v, "usage_data", JNull))

LoadFaults == {"none", "open"}

\* load_usage_data on the cache directory dir at time now
LoadFrom(dir, now, email, fault) ==
    IF email = <<>> THEN PyNone
    ELSE LET cache_file == CacheFile(email)
         IN  IF cache_file \notin DOMAIN dir THEN PyNone
             ELSE IF fault = "open" THEN PyNone        \* OSError
             ELSE DecodeEntry(dir[cache_file], now)

LoadUsageData(email, fault) == LoadFrom(cache, clock, email, fault)

----------------------------------------------------------------------------
(* Inputs of the cache *)

EmailDot == <<"a", ".", "b", "@", "x", ".", "i", "o">>
EmailUnderscore == <<"a", "_", "b", "@", "x", ".", "i", "o">>
EmailPlus == <<"a", "+", "b", "@", "x", ".", "i", "o">>
Emails == {<<>>, EmailDot, EmailUnderscore, EmailPlus}

RateLimits1 == JObj("primary" :> JObj("used_percent" :> JNum(42)))
TokenUsage1 == JObj("total_tokens" :> JNum(150))
Snapshot1 == JObj(("token_usage" :> JObj(EmptyMap)) @@ ("rate_limits" :> RateLimits1))
Snapshot2 == JObj(("token_usage" :> TokenUsage1) @@ ("rate_limits" :> RateLimits1))
Snapshots == {Snapshot1, Snapshot2, JObj(EmptyMap)}

----------------------------------------------------------------------------
(* The cache used from one process: put, get, and the clock *)

NoFiles == [file \in {} |-> <<>>]

InitCache ==
    /\ dirExists = FALSE
    /\ files = <<>>
    /\ clock = 0
    /\ cache = NoFiles
    /\ lastPut = NoFiles
    /\ ret = Idle
    /\ wr = <<>>
    /\ rd = NotRead

Tick(d) ==
    /\ ret.op = "idle"
    /\ clock + d <= MaxClock
    /\ clock' = clock + d
    /\ UNCHANGED <<dirExists, files, cache, lastPut, ret, wr, rd>>

CallSave(email, usage_data, fault) ==
    /\ ret.op = "idle"
    /\ LET r == SaveUsageData(email, usage_data, fault)
       IN  /\ cache' = r.cache
           /\ ret' = Returned("save", email, 0, fault, 0, r.out, usage_data, NoSummary)
           /\ lastPut' =
                IF r.cache = cache /\ r.out = "false" THEN lastPut
                ELSE (CacheFile(email) :>
                        [email |-> email, at |-> clock, snap |-> usage_data,
                         whole |-> r.out = "true"]) @@ lastPut
    /\ UNCHANGED <<dirExists, files, clock, wr, rd>>

CallLoad(email, fault) ==
    /\ ret.op = "idle"
    /\ LET r == LoadUsageData(email, fault)
       IN  ret' = Returned("load", email, 0, fault, 0, r.out, r.val, NoSummary)
    /\ UNCHANGED <<dirExists, files, clock, cache, lastPut, wr, rd>>

Return ==
    /\ ret.op # "idle"
    /\ ret' = Idle
    /\ UNCHANGED <<dirExists, files, clock, cache, lastPut, wr, rd>>

NextCache ==
    \/ \E d \in TickSteps : Tick(d)
    \/ \E email \in Emails, s \in Snapshots, fault \in SaveFaults :
          CallSave(email, s, fault)
    \/ \E email \in Emails, fault \in LoadFaults : CallLoad(email, fault)
    \/ Return

CacheSpec == InitCache /\ [][NextCache]_vars

----------------------------------------------------------------------------
(* Session log lines *)

\* a line json.loads rejects (JSONDecodeError), and a line it parses to v
LineGarbage == [json |-> FALSE, v |-> JNull]
Line(v) == [json |-> TRUE, v |-> v]

JsonLoads(line) == [ok |-> line.json, v |-> line.v]

TokenCount == JStr(<<"t", "o", "k", "e", "n", "_", "c", "o", "u", "n", "t">>)
Payload(p) == JObj("payload" :> p)

LineArray == Line(JArr)                                  \* []
LineNoPayload == Line(JObj(EmptyMap))                    \* {}
LinePayloadNull == Line(Payload(JNull))                  \* {"payload": null}
LineOther == Line(Payload(JObj("type" :> JStr(<<"m", "s", "g">>))))
LineNoLimits == Line(Payload(JObj("type" :> TokenCount)))
LineEmptyLimits ==
    Line(Payload(JObj(("type" :> TokenCount) @@ ("rate_limits" :> JObj(EmptyMap)))))
LineFull ==
    Line(Payload(JObj(("type" :> TokenCount)
                      @@ ("info" :> JObj("total_token_usage" :> TokenUsage1))
                      @@ ("rate_limits" :> RateLimits1))))

LineKinds ==
    {LineGarbage, LineArray, LineNoPayload, LinePayloadNull, LineNoLimits,
     LineEmptyLimits, LineFull}

----------------------------------------------------------------------------
(* _has_token_count_data and parse_session_file *)

\* lines[-20:]
TailLen == 20

RECURSIVE ScanTail(_, _, _)
\* the loop of lines 59-65 from line i down to line first
ScanTail(lines, i, first) ==
    IF i < first THEN "false"
    ELSE LET data == JsonLoads(lines[i])
         IN  IF ~data.ok THEN ScanTail(lines, i - 1, first)
             ELSE IF ~HasGet(data.v) THEN "raise"
             ELSE LET payload == DictGet(data.v, "payload", JObj(EmptyMap))
                  IN  IF ~HasGet(payload) THEN "raise"
                      ELSE IF DictGet(payload, "type", JNull) = TokenCount THEN "true"
                      ELSE ScanTail(lines, i - 1, first)

HasTokenCountData(lines, readable) ==
    IF ~readable THEN "false"                            \* OSError
    ELSE ScanTail(lines, Len(lines),
                  IF Len(lines) > TailLen THEN Len(lines) - TailLen + 1 ELSE 1)

Qualifies(payload) ==
    DictGet(payload, "type", JNull) = TokenCount /\ "rate_limits" \in DOMAIN payload.m

RECURSIVE ScanAll(_, _)
\* the loop of lines 77-85 from line i down to the first line
ScanAll(lines, i) ==
    IF i < 1 THEN PyNone
    ELSE LET data == JsonLoads(lines[i])
         IN  IF ~data.ok THEN ScanAll(lines, i - 1)
             ELSE IF ~HasGet(data.v) THEN PyRaise
             ELSE LET payload == DictGet(data.v, "payload", JObj(EmptyMap))
                  IN  IF ~HasGet(payload) THEN PyRaise
                      ELSE IF Qualifies(payload) THEN [out |-> "value", val |-> data.v]
                      ELSE ScanAll(lines, i - 1)

ParseSessionFile(lines, readable) ==
    IF ~readable THEN PyNone                             \* OSError
    ELSE ScanAll(lines, Len(lines))

----------------------------------------------------------------------------
(* find_latest_session_file *)

\* session_files[:10]
MaxProbe == 10

\* a file disappears after glob listed it: before sort's stat ("stat"), or
\* after it and before it is opened ("open", also an unreadable file)
NoRace == [at |-> "none", f |-> 0]
Races(n) == {NoRace} \cup [at : {"stat", "open"}, f : 1..n]
Readable(f, race) == ~(race.at = "open" /\ race.f = f)

RECURSIVE InsertByMtime(_, _, _)
\* x goes behind every file that is at least as recent
InsertByMtime(fs, sorted, x) ==
    IF sorted = <<>> THEN <<x>>
    ELSE IF fs[Head(sorted)].mtime >= fs[x].mtime
         THEN <<Head(sorted)>> \o InsertByMtime(fs, Tail(sorted), x)
         ELSE <<x>> \o sorted

RECURSIVE SortByMtime(_, _)
\* sort(key=st_mtime, reverse=True) of the first n files: stable
SortByMtime(fs, n) ==
    IF n = 0 THEN <<>> ELSE InsertByMtime(fs, SortByMtime(fs, n - 1), n)

RECURSIVE ProbeInOrder(_, _, _, _)
\* the loop of lines 47-49 over session_files[i..]
ProbeInOrder(fs, sorted, i, race) ==
    IF i > Len(sorted) \/ i > MaxProbe THEN [out |-> "path", f |-> sorted[1]]
    ELSE LET has == HasTokenCountData(fs[sorted[i]].lines, Readable(sorted[i], race))
         IN  CASE has = "raise" -> [out |-> "raise", f |-> 0]
               [] has = "true" -> [out |-> "path", f |-> sorted[i]]
               [] OTHER -> ProbeInOrder(fs, sorted, i + 1, race)

FindLatestSessionFile(race) ==
    IF ~dirExists THEN [out |-> "none", f |-> 0]
    ELSE IF files = <<>> THEN [out |-> "none", f |-> 0]
    ELSE IF race.at = "stat" THEN [out |-> "raise", f |-> 0]   \* FileNotFoundError
    ELSE ProbeInOrder(files, SortByMtime(files, Len(files)), 1, race)

----------------------------------------------------------------------------
(* get_usage_summary *)

ErrNoSession == "no session file"
ErrNoData == "no usage data"

\* strftime("%Y-%m-%d %H:%M:%S")
StrfTime(t) ==
    <<Digit[(t \div 24) + 1], " ", Digit[((t % 24) \div 10) + 1],
      Digit[((t % 24) % 10) + 1]>>

Failed(error) ==
    [status |-> "failed", token_usage |-> JObj(EmptyMap),
     rate_limits |-> JObj(EmptyMap), errors |-> <<error>>,
     check_time |-> StrfTime(clock)]

\* lines 159-169
Extracted(token_data) ==
    LET payload == DictGet(token_data, "payload", JObj(EmptyMap))
        info == DictGet(payload, "info", JNull)
    IN  [status |-> "success",
         token_usage |->
            IF Truthy(info) /\ info.k = "obj" /\ "total_token_usage" \in DOMAIN info.m
            THEN info.m["total_token_usage"] ELSE JObj(EmptyMap),
         rate_limits |->
            IF "rate_limits" \in DOMAIN payload.m THEN payload.m["rate_limits"]
            ELSE JObj(EmptyMap),
         errors |-> <<>>,
         check_time |-> StrfTime(clock)]

UsageData(summary) ==
    JObj(("check_time" :> JStr(summary.check_time))
         @@ ("token_usage" :> summary.token_usage)
         @@ ("rate_limits" :> summary.rate_limits))

\* the outcome ("value": the summary sum is returned), and the cache after it
GetUsageSummary(email, race) ==
    LET session_file == FindLatestSessionFile(race)
    IN  CASE session_file.out = "raise" ->
               [out |-> "raise", sum |-> NoSummary, cache |-> cache]
          [] session_file.out = "none" ->
               [out |-> "value", sum |-> Failed(ErrNoSession), cache |-> cache]
          [] OTHER ->
               LET token_data == ParseSessionFile(files[session_file.f].lines,
                                                  Readable(session_file.f, race))
               IN  CASE token_data.out = "raise" ->
                          [out |-> "raise", sum |-> NoSummary, cache |-> cache]
                     [] token_data.out = "none" \/ ~Truthy(token_data.val) ->
                          [out |-> "value", sum |-> Failed(ErrNoData), cache |-> cache]
                     [] OTHER ->
                          LET summary == Extracted(token_data.val)
                          IN  [out |-> "value", sum |-> summary,
                               cache |-> IF email # <<>>
                                         THEN SaveUsageData(email, UsageData(summary),
                                                            "none").cache
                                         ELSE cache]

----------------------------------------------------------------------------
(* The scanner and the summary over a sessions directory *)

Pad(n) == [i \in 1..n |-> LineOther]
Bodies(maxlen) == UNION {[1..n -> LineKinds] : n \in 0..maxlen}
\* a file: some lines, then no or TailLen lines of other events
Contents(maxlen) == {body \o Pad(p) : body \in Bodies(maxlen), p \in {0, TailLen}}

SessionDirs ==
    UNION {[1..n -> [mtime : 1..MaxMtime, lines : Contents(MaxScanLines)]] :
             n \in 0..MaxFiles}

Init ==
    /\ dirExists \in BOOLEAN
    /\ files \in SessionDirs
    /\ ~dirExists => files = <<>>
    /\ clock = 0
    /\ cache = NoFiles
    /\ lastPut = NoFiles
    /\ ret = Idle
    /\ wr = <<>>
    /\ rd = NotRead

CallFind(race) ==
    /\ ret.op = "idle"
    /\ LET r == FindLatestSessionFile(race)
       IN  ret' = Returned("find", <<>>, r.f, race.at, race.f, r.out, JNull, NoSummary)
    /\ UNCHANGED <<dirExists, files, clock, cache, lastPut, wr, rd>>

CallProbe(f, readable) ==
    /\ ret.op = "idle"
    /\ ret' = Returned("probe", <<>>, f, IF readable THEN "none" ELSE "open", f,
                       HasTokenCountData(files[f].lines, readable), JNull, NoSummary)
    /\ UNCHANGED <<dirExists, files, clock, cache, lastPut, wr, rd>>

CallParse(f, readable) ==
    /\ ret.op = "idle"
    /\ LET r == ParseSessionFile(files[f].lines, readable)
       IN  ret' = Returned("parse", <<>>, f, IF readable THEN "none" ELSE "open", f,
                           r.out, r.val, NoSummary)
    /\ UNCHANGED <<dirExists, files, clock, cache, lastPut, wr, rd>>

CallSummary(email, race) ==
    /\ ret.op = "idle"
    /\ LET r == GetUsageSummary(email, race)
       IN  /\ ret' = Returned("summary", email, 0, race.at, race.f, r.out, JNull, r.sum)
           /\ cache' = r.cache
           /\ lastPut' =
                IF r.out = "value" /\ r.sum.status = "success" /\ email # <<>>
                THEN (CacheFile(email) :>
                        [email |-> email, at |-> clock, snap |-> UsageData(r.sum),
                         whole |-> TRUE]) @@ lastPut
                ELSE lastPut
    /\ UNCHANGED <<dirExists, files, clock, wr, rd>>

Next ==
    \/ \E race \in Races(Len(files)) : CallFind(race)
    \/ \E f \in 1..Len(files), readable \in BOOLEAN : CallProbe(f, readable)
    \/ \E f \in 1..Len(files), readable \in BOOLEAN : CallParse(f, readable)
    \/ \E email \in {<<>>, EmailDot}, race \in Races(Len(files)) :
          CallSummary(email, race)
    \/ Return

Spec == Init /\ [][Next]_vars

----------------------------------------------------------------------------
(* The quick-check and the extractor on one file *)

InitFile ==
    /\ dirExists = TRUE
    /\ files \in [1..1 -> [mtime : {1}, lines : Contents(MaxLines)]]
    /\ clock = 0
    /\ cache = NoFiles
    /\ lastPut = NoFiles
    /\ ret = Idle
    /\ wr = <<>>
    /\ rd = NotRead

NextFile ==
    \/ \E readable \in BOOLEAN : CallProbe(1, readable)
    \/ \E readable \in BOOLEAN : CallParse(1, readable)
    \/ Return

FileSpec == InitFile /\ [][NextFile]_vars

----------------------------------------------------------------------------
(* Several processes on the cache file of one identity.  save_usage_data   *)
(* opens the file with mode 'w', which empties it, and the buffered text   *)
(* reaches the file in one or more writes at the writer's own offset, the  *)
(* last of them when the file is closed.  load_usage_data reads the file   *)
(* in one read.                                                            *)

SharedFile == CacheFile(EmailDot)

NotStarted == [pc |-> "idle", content |-> <<>>, pos |-> 0, closed |-> 0]

Hole == Tok("nul", <<>>, 0)

\* write(2) of data at offset pos of a file holding old
WriteAt(old, pos, data) ==
    [i \in 1..(IF Len(old) > pos + Len(data) THEN Len(old) ELSE pos + Len(data)) |->
        IF i > pos /\ i <= pos + Len(data) THEN data[i - pos]
        ELSE IF i <= Len(old) THEN old[i] ELSE Hole]

InitConc ==
    /\ dirExists = FALSE
    /\ files = <<>>
    /\ clock = 0
    /\ cache = NoFiles
    /\ lastPut = NoFiles
    /\ ret = Idle
    /\ wr = [w \in 1..Writers |-> NotStarted]
    /\ rd = NotRead

\* lines 97-106: the entry is built and open(cache_file, 'w') empties the file
WOpen(w, usage_data) ==
    /\ wr[w].pc = "idle"
    /\ wr' = [wr EXCEPT ![w] = [pc |-> "open",
                                content |-> Dump(CacheData(EmailDot, usage_data, clock)),
                                pos |-> 0, closed |-> 0]]
    /\ cache' = WriteFile(cache, SharedFile, <<>>)
    /\ UNCHANGED <<dirExists, files, clock, lastPut, ret, rd>>

\* a full buffer is written out
WFlush(w) ==
    /\ wr[w].pc = "open"
    /\ Len(wr[w].content) - wr[w].pos > FlushLen
    /\ cache' = WriteFile(cache, SharedFile,
                          WriteAt(cache[SharedFile], wr[w].pos,
                                  SubSeq(wr[w].content, wr[w].pos + 1,
                                         wr[w].pos + FlushLen)))
    /\ wr' = [wr EXCEPT ![w].pos = @ + FlushLen]
    /\ UNCHANGED <<dirExists, files, clock, lastPut, ret, rd>>

\* leaving the with block writes the rest and closes the file
WClose(w) ==
    /\ wr[w].pc = "open"
    /\ Len(wr[w].content) - wr[w].pos <= FlushLen
    /\ cache' = WriteFile(cache, SharedFile,
                          WriteAt(cache[SharedFile], wr[w].pos,
                                  SubSeq(wr[w].content, wr[w].pos + 1,
                                         Len(wr[w].content))))
    /\ wr' = [wr EXCEPT ![w].pc = "closed", ![w].pos = Len(wr[w].content),
                        ![w].closed = 1 + Cardinality({v \in 1..Writers :
                                                         wr[v].pc = "closed"})]
    /\ UNCHANGED <<dirExists, files, clock, lastPut, ret, rd>>

\* the process dies with the file open: what is buffered is lost
WCrash(w) ==
    /\ wr[w].pc = "open"
    /\ wr' = [wr EXCEPT ![w].pc = "crashed"]
    /\ UNCHANGED <<dirExists, files, clock, cache, lastPut, ret, rd>>

RLoad ==
    /\ LET r == LoadUsageData(EmailDot, "none")
       IN  rd' = [op |-> "load",
                  existed |-> SharedFile \in DOMAIN cache,
                  seen |-> IF SharedFile \in DOMAIN cache THEN cache[SharedFile]
                           ELSE <<>>,
                  crashed |-> \E w \in 1..Writers : wr[w].pc = "crashed",
                  out |-> r.out, val |-> r.val]
    /\ UNCHANGED <<dirExists, files, clock, cache, lastPut, ret, wr>>

NextConc ==
    \/ \E w \in 1..Writers, s \in {Snapshot1, Snapshot2} : WOpen(w, s)
    \/ \E w \in 1..Writers : WFlush(w)
    \/ \E w \in 1..Writers : WClose(w)
    \/ \E w \in 1..Writers : WCrash(w)
    \/ RLoad

ConcSpec == InitConc /\ [][NextConc]_vars

----------------------------------------------------------------------------
(* Properties *)

DistinctMtimes ==
    \A f, g \in 1..Len(files) : f # g => files[f].mtime # files[g].mtime
\* how many files are more recent than f
Rank(f) == Cardinality({g \in 1..Len(files) : files[g].mtime > files[f].mtime})
ProbesPositive(f) == HasTokenCountData(files[f].lines, TRUE) = "true"
\* the line is a JSON object whose payload is a token_count with rate_limits
QualifyingLine(line) ==
    /\ line.json
    /\ line.v.k = "obj"
    /\ "payload" \in DOMAIN line.v.m
    /\ line.v.m["payload"].k = "obj"
    /\ "type" \in DOMAIN line.v.m["payload"].m
    /\ line.v.m["payload"].m["type"] = TokenCount
    /\ "rate_limits" \in DOMAIN line.v.m["payload"].m
QualifyingLines(lines) == {i \in 1..Len(lines) : QualifyingLine(lines[i])}
Last(set) == CHOOSE i \in set : \A j \in set : j <= i

(* C1: with distinct modification times, find_latest_session_file returns *)
(* None when the root is absent or holds no file; else it returns the     *)
(* most recent of the 10 most recent files that probes positive, and the  *)
(* newest file when none of them does.                                    *)
C1_ScanOrder ==
    (ret.op = "find" /\ ret.fault = "none" /\ DistinctMtimes) =>
        IF ~dirExists \/ files = <<>> THEN ret.out = "none"
        ELSE LET top == {f \in 1..Len(files) : Rank(f) < 10}
                 positive == {f \in top : ProbesPositive(f)}
             IN  /\ ret.out = "path"
                 /\ IF positive # {}
                    THEN ret.f \in positive
                         /\ \A g \in positive : Rank(ret.f) <= Rank(g)
                    ELSE Rank(ret.f) = 0

(* C2: on a readable file parse_session_file returns the last line whose  *)
(* payload is a token_count with rate_limits, whatever the other lines    *)
(* are, and None exactly when no line qualifies.                          *)
C2_LatestSnapshot ==
    (ret.op = "parse" /\ ret.fault = "none") =>
        LET lines == files[ret.f].lines
            q == QualifyingLines(lines)
        IN  IF q = {} THEN ret.out = "none"
            ELSE ret.out = "value" /\ ret.val = lines[Last(q)].v

\* load_usage_data(ret.arg) has just returned, without an I/O fault, and the
\* last save to write its cache file wrote a whole entry
LoadedStored ==
    /\ ret.op = "load"
    /\ ret.arg # <<>>
    /\ ret.fault = "none"
    /\ CacheFile(ret.arg) \in DOMAIN lastPut
    /\ lastPut[CacheFile(ret.arg)].whole

(* C3: a load_usage_data(identity) that immediately follows the most      *)
(* recent successful save_usage_data(identity, S) returns S.              *)
C3_RoundTrip ==
    (/\ LoadedStored
     /\ lastPut[CacheFile(ret.arg)].email = ret.arg
     /\ lastPut[CacheFile(ret.arg)].at = clock)
    => /\ ret.out = "value"
       /\ ret.val = lastPut[CacheFile(ret.arg)].snap

C3_Witness ==
    /\ LoadedStored
    /\ lastPut[CacheFile(ret.arg)].email = ret.arg
    /\ lastPut[CacheFile(ret.arg)].at = clock
    /\ clock > 0
    /\ ret.val = Snapshot2

C4_Result ==
    LoadedStored =>
        IF clock - lastPut[CacheFile(ret.arg)].at > 24
        THEN ret.out = "none"
        ELSE /\ ret.out = "value"
             /\ ret.val = lastPut[CacheFile(ret.arg)].snap

(* C4: load_usage_data returns None when the stored entry was written     *)
(* more than 24 hours ago and the stored snapshot when it was not, and no *)
(* load_usage_data changes the cache directory.                           *)
C4_Expiry ==
    /\ []C4_Result
    /\ [][ret'.op = "load" => cache' = cache]_vars

C4_Witness ==
    /\ LoadedStored
    /\ clock - lastPut[CacheFile(ret.arg)].at > 24
    /\ ret.out = "none"
    /\ JsonLoad(cache[CacheFile(ret.arg)]).ok

(* C5: get_usage_summary returns a summary whose status is success or     *)
(* failed; without a session file, and when the extractor returns None     *)
(* for the chosen file, it is failed with the one error of that cause and *)
(* empty token_usage and rate_limits; a success has no error.             *)
C5_SummaryStatus ==
    ret.op = "summary" =>
        /\ ret.out = "value"
        /\ ret.sum.status \in {"success", "failed"}
        /\ (~dirExists \/ files = <<>>) =>
              ret.sum = [Failed(ErrNoSession) EXCEPT !.check_time = ret.sum.check_time]
        /\ LET race == [at |-> ret.fault, f |-> ret.ff]
               found == FindLatestSessionFile(race)
           IN  (/\ found.out = "path"
                /\ ParseSessionFile(files[found.f].lines,
                                    Readable(found.f, race)).out = "none")
               => ret.sum = [Failed(ErrNoData) EXCEPT !.check_time = ret.sum.check_time]
        /\ ret.sum.status = "success" => ret.sum.errors = <<>>

(* C6: the quick-check, the extractor, the scanner and get_usage_summary  *)
(* raise no exception, whatever the lines hold and whatever I/O fails; at *)
(* worst the summary is failed with an error in its list.                 *)
C6_NoFatalError ==
    /\ ret.out # "raise"
    /\ (ret.op = "summary" /\ ret.sum.status # "success") =>
          ret.sum.status = "failed" /\ ret.sum.errors # <<>>

(* C7: a summary is a success, and an entry is written to the cache, only *)
(* with a non-empty rate_limits mapping.                                  *)
C7_ValidSnapshot ==
    /\ (ret.op = "summary" /\ ret.out = "value" /\ ret.sum.status = "success") =>
          Truthy(ret.sum.rate_limits)
    /\ \A file \in DOMAIN lastPut :
          Truthy(DictGet(lastPut[file].snap, "rate_limits", JNull))

(* C8: while no writer has crashed, a load_usage_data that runs between   *)
(* the steps of concurrent save_usage_data calls sees a whole entry, that *)
(* of one of the writers; when all writers have finished the file holds   *)
(* the entry of the one that finished last; and a reader that sees a      *)
(* partial file returns None and does not raise.                          *)
C8_ReadersSeeWholeEntries ==
    /\ (rd.op = "load" /\ rd.existed /\ ~rd.crashed) =>
          \E w \in 1..Writers : wr[w].pc # "idle" /\ rd.seen = wr[w].content
    /\ (\A w \in 1..Writers : wr[w].pc = "closed") =>
          \E w \in 1..Writers :
              wr[w].closed = Writers /\ cache[SharedFile] = wr[w].content
    /\ (rd.op = "load" /\ ~JsonLoad(rd.seen).ok) => rd.out = "none"

(* C9: distinct identities do not share a cache file: a                   *)
(* save_usage_data(A, S) leaves the result of load_usage_data(B)          *)
(* unchanged for every identity B other than A.                           *)
C9_Isolation ==
    [][\A a \in Emails, b \in Emails :
          (a # <<>> /\ b # <<>> /\ a # b /\ ret'.op = "save" /\ ret'.arg = a)
          => LoadFrom(cache', clock', b, "none") = LoadFrom(cache, clock, b, "none")]_vars

(* C10: a file that find_latest_session_file returns because its          *)
(* quick-check was positive yields a snapshot from parse_session_file;    *)
(* and when one of the 10 most recent files holds a qualifying line in    *)
(* its last 20 lines, get_usage_summary returns a success.                *)
C10_ProbeImpliesSnapshot ==
    /\ (ret.op = "find" /\ ret.fault = "none" /\ ret.out = "path"
        /\ ProbesPositive(ret.f))
       => ParseSessionFile(files[ret.f].lines, TRUE).out = "value"
    /\ (/\ ret.op = "summary"
        /\ ret.fault = "none"
        /\ \E f \in 1..Len(files) :
              /\ Rank(f) < 10
              /\ \E i \in QualifyingLines(files[f].lines) :
                    i > Len(files[f].lines) - 20)
       => ret.out = "value" /\ ret.sum.status = "success"

====
